---------------------------- MODULE Spec2Model ----------------------------
(***************************************************************************)
(* One BatteryClient session of the Renogy BLE polling engine:             *)
(* BatteryClient (renogy/renogybt/BatteryClient.py) on top of BaseClient   *)
(* (renogy_bt/renogy/renogybt/BaseClient.py) and BLEManager                *)
(* (renogy-bt/renogy/renogybt/BLEManager.py), run by one asyncio event     *)
(* loop.                                                                   *)
(*                                                                         *)
(* asyncio is cooperative: the code between two awaits of a coroutine is   *)
(* atomic.  Every action below is one such run of one coroutine (or one    *)
(* timer callback), from the await it wakes from to the next await it      *)
(* suspends at, including every call it makes on the way.  The coroutines  *)
(* alive on the loop are the bag `tasks`; a task is the await point it is  *)
(* suspended at plus the chain of callers that are awaiting it.            *)
(*                                                                         *)
(* The transport (bleak, the device) is the environment: what discovery,   *)
(* connect, write and disconnect return or raise, which notifications      *)
(* arrive and when, and when the link drops are chosen nondeterministically.*)
(* Time is not modelled: a pending timer may fire at any moment.           *)
(***************************************************************************)
EXTENDS Integers, Sequences, FiniteSets, Bags, TLC

(***************************************************************************)
(* Program constants                                                       *)
(***************************************************************************)
READ_SUCCESS == 3
READ_ERROR == 131
MAX_BATTERY_ATTEMPTS == 3
MAX_RETRIES == 3

\* A function code that is neither READ_SUCCESS nor READ_ERROR (6 = WRITE in
\* BatteryClient.FUNCTION).
OTHER_FUNCTION == 6

\* BatteryClient.sections: the 'words' of each section, in list order
\* (sections are numbered 0..N-1 as in the code; Words is 1-based).
Words == <<17, 17, 6, 8, 1>>

N == Len(Words)

Sections == 0 .. (N - 1)

\* The length of a successful read response for section i: words * 2 + 5.
ExpectedLen(i) == Words[i + 1] * 2 + 5

\* Parsers of which the second also writes the first one's cell count.
Fields_shared(i) ==
    CASE i = 0 -> {"function", "cell_count", "cell_voltage_0"}
      [] i = 1 -> {"function", "cell_count", "sensor_count", "temperature_0"}
      [] i = 2 -> {"function", "current", "voltage", "remaining_charge", "capacity"}
      [] i = 3 -> {"function", "model"}
      [] i = 4 -> {"device_id"}

\* The snapshot fields each section's parser writes (BatteryClient.parse_*).
\* The per-cell / per-sensor fields, whose number depends on the payload, are
\* one representative field each.
Fields(i) ==
    CASE i = 0 -> {"function", "cell_count", "cell_voltage_0"}
      [] i = 1 -> {"function", "sensor_count", "temperature_0"}
      [] i = 2 -> {"function", "current", "voltage", "remaining_charge", "capacity"}
      [] i = 3 -> {"function", "model"}
      [] i = 4 -> {"device_id"}

\* The identity tags on_read_operation_complete adds to the snapshot.
Tags == {"__device", "__client"}

(***************************************************************************)
(* Bounds of the model                                                     *)
(***************************************************************************)
\* Notifications delivered in one run (one poll cycle of N sections and the
\* start of the next).
MaxNotifications == 6
\* Misbehaviours of the transport and of the device in one run: a malformed,
\* corrupted or unsolicited notification, an answer later than READ_TIMEOUT,
\* a failed write or disconnect, a dropped link, an exception escaping
\* BaseClient.read_section.
MaxFaults == 1

(***************************************************************************)
(* State                                                                   *)
(***************************************************************************)
VARIABLES
    \* ---- BatteryClient / BaseClient fields
    section_index,   \* self.section_index
    data,            \* self.data: field name -> the section whose parser wrote it
    read_timeout,    \* the handle in self.read_timeout: none, pending, cancelled, fired
    attempt_count,   \* self.attempt_count
    enable_polling,  \* config['data']['enable_polling']
    futureDone,      \* self.future.done()
    \* ---- the event loop
    started,         \* BatteryClient.start(): "idle", "running", "returned"
    tasks,           \* bag of suspended coroutines
    orphans,         \* pending timers whose handle self.read_timeout no longer holds
    \* ---- transport
    connected,       \* self.ble_manager.client and self.ble_manager.client.is_connected
    inflight,        \* requests the device has received and not yet answered
    \* ---- history (observations only, never read by the program)
    writes,          \* sections requested in the current cycle, in order
    log,             \* notifications processed in the current cycle, in order
    emitted,         \* the map on_data_callback received: what it holds now
                     \* (snapshot), what it held when handed over (given),
                     \* whether self.data is still that very map (shared), and
                     \* its cycle's history; until the next request is written
    count,           \* counters of the events the properties speak about
                     \* (resolved: the set_result calls on self.future)
    obs,             \* flags of the events the properties speak about: overlap,
                     \* dirty and linked for the whole run; unsupported (the
                     \* transport raised "Operation is not supported"),
                     \* raised (a caller's handler raised), absent (discovery
                     \* found no device), wrote and attempt (how the
                     \* write_gatt_char call of the step ended, and which
                     \* attempt of its characteristic_write_value call it was)
                     \* for the last step only
    \* ---- the supervisor (run.py, HomeAssistantIntegration.start)
    sup,             \* the loop over self.device_configs: the configuration it
                     \* takes next, what became of those it has taken, and the
                     \* number of start() calls it has made
    \* ---- the frame codec
    request,         \* the arguments of a create_generic_read_request call and
                     \* the frame it returned
    \* ---- Home Assistant discovery
    device_manager,  \* the DeviceManager: config['mqtt']['discovery'],
                     \* device_entity_mappings, mqtt_discovery_sent, and as
                     \* observations the publishes attempted for each device
                     \* and field (published) and the fields the last call
                     \* passed over as already sent (skipped)
    integration      \* the HomeAssistantIntegration of run.py, likewise

vars == <<section_index, data, read_timeout, attempt_count, enable_polling, futureDone,
          started, tasks, orphans, connected, inflight, writes, log, emitted, count, obs,
          sup, request, device_manager, integration>>


(***************************************************************************)
(* The session as one value, so that the code's nested calls are functions *)
(* from session to session.                                                *)
(***************************************************************************)
Session ==
    [section_index |-> section_index, data |-> data, read_timeout |-> read_timeout,
     attempt_count |-> attempt_count, enable_polling |-> enable_polling,
     futureDone |-> futureDone, tasks |-> tasks, orphans |-> orphans,
     connected |-> connected, inflight |-> inflight, writes |-> writes, log |-> log,
     emitted |-> emitted, count |-> count,
     \* what the last step observed is forgotten by the next one
     obs |-> [obs EXCEPT !.unsupported = FALSE, !.raised = FALSE, !.absent = FALSE,
                         !.wrote = "none", !.attempt = 0],
     sup |-> sup, request |-> request,
     device_manager |-> device_manager, integration |-> integration,
     \* within one step: the caller's handlers raise when called (cb), an
     \* exception is propagating (exc)
     cb |-> FALSE, exc |-> FALSE]

Commit(S) ==
    /\ section_index' = S.section_index
    /\ data' = S.data
    /\ read_timeout' = S.read_timeout
    /\ attempt_count' = S.attempt_count
    /\ enable_polling' = S.enable_polling
    /\ futureDone' = S.futureDone
    /\ tasks' = S.tasks
    /\ orphans' = S.orphans
    /\ connected' = S.connected
    /\ inflight' = S.inflight
    /\ writes' = S.writes
    /\ log' = S.log
    /\ emitted' = S.emitted
    /\ count' = S.count
    /\ obs' = S.obs
    /\ sup' = S.sup
    /\ request' = S.request
    /\ device_manager' = S.device_manager
    /\ integration' = S.integration

\* A suspended coroutine: the await it is suspended at (pc), the callers
\* awaiting it, innermost last (stack), the section whose request a write is
\* sending (sec) and the write attempts already failed (r).
Task(pc, stack, sec, r) == [pc |-> pc, stack |-> stack, sec |-> sec, r |-> r]

Spawn(S, t) == [S EXCEPT !.tasks = @ (+) SetToBag({t})]

Kill(S, t) == [S EXCEPT !.tasks = @ (-) SetToBag({t})]

\* {} as a dict.
EmptyData == [f \in {} |-> 0]

\* `emitted` while no snapshot has been delivered since the last request.
NoSnapshot ==
    [snapshot |-> EmptyData, given |-> EmptyData, shared |-> FALSE,
     log |-> <<>>, writes |-> <<>>, via |-> "none"]

Front(s) == SubSeq(s, 1, Len(s) - 1)

Last(s) == s[Len(s)]

\* One more misbehaviour of the transport.  A response that is well-formed by
\* function byte and length but carries a wrong checksum or an undecodable
\* payload uses the budget without making the transport ill-behaved (dirty).
Budget(S) == [S EXCEPT !.count.faults = @ + 1]

Fault(S) == [Budget(S) EXCEPT !.obs.dirty = TRUE]

(***************************************************************************)
(* BaseClient                                                              *)
(***************************************************************************)
\* handle.cancel() under `if self.read_timeout and not self.read_timeout.cancelled()`:
\* only a pending timer changes; cancelling a fired one does nothing.
cancel_read_timeout(S) ==
    [S EXCEPT !.read_timeout = IF @ = "pending" THEN "cancelled" ELSE @]

\* A future resolved whether or not it is already done.
set_result_again(S) == [S EXCEPT !.futureDone = TRUE, !.count.resolved = @ + 1]

\* self.future.set_result('DONE') unless already done (lines 65-71).
set_result(S) ==
    IF S.futureDone
    THEN S
    ELSE [S EXCEPT !.futureDone = TRUE, !.count.resolved = @ + 1]

\* BaseClient.disconnect up to its await: BLEManager.disconnect awaits
\* client.disconnect() when the client is connected; otherwise the future is
\* resolved at once.
disconnect(S) ==
    IF S.connected
    THEN Spawn(S, Task("disconnecting", <<>>, -1, 0))
    ELSE set_result(S)

\* BaseClient.stop with self.loop set: cancel the timer, schedule disconnect().
\* The scheduled task is first in the loop's ready queue: its run up to its
\* await is taken with the step that calls stop().
stop(S) ==
    LET S1 == cancel_read_timeout(S)
    IN  disconnect([S1 EXCEPT !.count.stops = @ + 1])

\* A callback called with nothing around it: what it raises propagates.
safe_callback_bare(S) ==
    IF S.cb
    THEN [S EXCEPT !.obs.raised = TRUE, !.exc = TRUE]
    ELSE S

\* BaseClient.__safe_callback: the caller's handler is called inside
\* try/except Exception; what it raises is logged and goes no further.
safe_callback(S) ==
    IF S.cb
    THEN [S EXCEPT !.obs.raised = TRUE]
    ELSE S

\* BaseClient.__safe_callback(self.on_error_callback, error)
on_error_callback(S) == safe_callback([S EXCEPT !.count.errors = @ + 1])

\* BaseClient.__on_connect_fail: the "Operation is not supported" BleakDBusError
\* is ignored, any other error is reported and stops the session.  An
\* exception leaving the report would leave the function before stop().
on_connect_fail(S, error) ==
    IF error = "dbus_not_supported"
    THEN [S EXCEPT !.obs.unsupported = TRUE]
    ELSE LET S1 == on_error_callback(S)
         IN  IF S1.exc THEN S1 ELSE stop(S1)

\* A parser whose result replaces the working snapshot instead of being
\* merged into it.
safe_parser_replace(S, i, resp) ==
    IF resp.poison
    THEN S
    ELSE [S EXCEPT !.data = [f \in Fields(i) |-> i]]

\* A parser that writes each field into the snapshot as it decodes it: one
\* that raises has written its first field.
safe_parser_in_place(S, i, resp) ==
    LET done == IF resp.poison THEN {CHOOSE f \in Fields(i) : TRUE} ELSE Fields(i)
    IN  [S EXCEPT !.data = [f \in (DOMAIN S.data) \cup done |->
                               IF f \in done THEN i ELSE S.data[f]]]

\* BaseClient.__safe_parser with BatteryClient.parse_*: the parser builds a
\* local dict and merges it with self.data.update at its end; a parser that
\* raises (poison) has merged nothing, and the exception is swallowed.
safe_parser(S, i, resp) ==
    IF resp.poison
    THEN S
    ELSE LET merged == [f \in (DOMAIN S.data) \cup Fields(i) |->
                           IF f \in Fields(i) THEN i ELSE S.data[f]]
         IN  [S EXCEPT !.data = merged,
                       !.emitted.snapshot = IF S.emitted.shared THEN merged ELSE @]

\* A cycle that ends without handing anything over.
on_read_operation_complete_skipped(S, via) == S

\* BaseClient.on_read_operation_complete: tag the snapshot and hand it to
\* on_data_callback (through __safe_callback).  `via` records which branch of
\* on_data_received completed the cycle.
on_read_operation_complete(S, via) ==
    LET tagged == [f \in (DOMAIN S.data) \cup Tags |->
                       IF f \in Tags THEN -1 ELSE S.data[f]]
    IN  safe_callback([S EXCEPT !.data = tagged,
                                !.emitted = [snapshot |-> tagged, given |-> tagged,
                                             shared |-> TRUE, log |-> S.log,
                                             writes |-> S.writes, via |-> via],
                                !.count.snapshots = @ + 1,
                                !.log = <<>>,
                                !.writes = <<>>])

\* The working snapshot emptied in place (self.data.clear()): the map the
\* caller was given is emptied with it.
clear_in_place(S) == [S EXCEPT !.data = EmptyData, !.emitted.snapshot = EmptyData]

\* The working snapshot left as it is after the delivery.
keep_map(S) == S

\* self.data = {} (lines 95, 107, 119): self.data is bound to a new empty
\* map; the map the caller was given is no longer the session's.
fresh_map(S) == [S EXCEPT !.data = EmptyData, !.emitted.shared = FALSE]

\* A check_polling that never polls again.
check_polling_off(S, ctx) == S

\* BaseClient.check_polling up to its await: sleep poll_interval when polling
\* is enabled, else return.  `ctx` is the block of on_data_received calling.
check_polling(S, ctx) ==
    IF S.enable_polling
    THEN Spawn(S, Task("poll_sleep", <<ctx>>, -1, 0))
    ELSE S

\* A tail that advances without looking at the number of sections.
advance_unchecked(S, ctx, via) ==
    Spawn([S EXCEPT !.section_index = @ + 1], Task("pace", <<ctx>>, -1, 0))

\* The tail of every branch of on_data_received (lines 92-100, 104-112,
\* 116-124): after the last section reset the index, deliver the snapshot,
\* clear it and poll again; otherwise advance and pace 0.5 s.  The first
\* branch tests `>= len - 1`, the other two `< len - 1`: the same test.
RECURSIVE advance(_, _, _)

\* An exception leaving on_read_operation_complete would skip the rest of the
\* branch: from the try block it reaches the except block (lines 113-124),
\* from the except block it leaves the handler.
advance(S, ctx, via) ==
    IF S.section_index >= N - 1
    THEN LET S1 == on_read_operation_complete([S EXCEPT !.section_index = 0], via)
         IN  CASE ~S1.exc -> check_polling(fresh_map(S1), ctx)
               [] S1.exc /\ ctx = "try" ->
                      advance([S1 EXCEPT !.exc = FALSE], "exc", "exception")
               [] S1.exc /\ ctx # "try" -> [S1 EXCEPT !.exc = FALSE]
    ELSE Spawn([S EXCEPT !.section_index = @ + 1], Task("pace", <<ctx>>, -1, 0))

\* The test without its length comparison.
accepts_any_length(S, resp) ==
    /\ resp.op = READ_SUCCESS
    /\ S.section_index < N

\* The test with the length as an upper limit.
accepts_at_most(S, resp) ==
    /\ resp.op = READ_SUCCESS
    /\ S.section_index < N
    /\ resp.len <= Words[S.section_index + 1] * 2 + 5

\* The test of on_data_received lines 81-84 (every section of BatteryClient
\* has a parser).
accepts(S, resp) ==
    /\ resp.op = READ_SUCCESS
    /\ S.section_index < N
    /\ Words[S.section_index + 1] * 2 + 5 = resp.len

\* BaseClient.on_data_received up to its first await (lines 73-112).
on_data_received(S, resp) ==
    LET S1 == cancel_read_timeout([S EXCEPT !.count.notifications = @ + 1])
        ran == accepts(S1, resp)
        S2 == [S1 EXCEPT !.log = Append(@, [sec |-> S1.section_index, req |-> resp.req,
                                            op |-> resp.op, len |-> resp.len,
                                            crc |-> resp.crc, poison |-> resp.poison,
                                            ran |-> ran])]
    IN  IF resp.op = READ_SUCCESS \/ resp.op = READ_ERROR
        THEN advance(IF ran THEN safe_parser(S2, S2.section_index, resp) ELSE S2,
                     "try", "notification")
        ELSE advance(S2, "try", "notification")

\* Whether the callers on `stack` do nothing more once the awaited call
\* returns: only the recovery of BatteryClient.read_section continues after
\* an awaited call (with a second read).
Finished(stack) == \A k \in 1 .. Len(stack) : stack[k] # "rec"

\* A coroutine suspended at `pc`; one that has nothing left to do but sleep and
\* return through finished callers is dropped at once.
Suspend(S, pc, stack, sec, r) ==
    IF pc \in {"write_sleep", "write_failed"} /\ Finished(stack)
    THEN S
    ELSE Spawn(S, Task(pc, stack, sec, r))

\* A write that is tried again after every failure, without a limit.
characteristic_write_value_retry_all(S, wr, stack, sec, r) ==
    LET S0 == [S EXCEPT !.obs.wrote = wr, !.obs.attempt = r + 1]
    IN  IF wr = "ok"
        THEN Suspend([S0 EXCEPT !.inflight = Append(@, sec),
                                !.writes = Append(@, sec),
                                !.count.outstanding = @ + 1,
                                !.obs.overlap = @ \/ (S.count.outstanding > 0)],
                     "write_sleep", stack, sec, r)
        ELSE Suspend(Fault(S0), "write_retry", stack, sec, r + 1)

\* BLEManager.characteristic_write_value, one pass of its retry loop: the
\* outcome `wr` of write_gatt_char.  A written request reaches the device and
\* the coroutine sleeps 0.5 s; a failed write is swallowed (retried after 1 s
\* for "not supported" while retries < MAX_RETRIES, given up otherwise).
characteristic_write_value(S, wr, stack, sec, r) ==
    LET S0 == [S EXCEPT !.obs.wrote = wr, !.obs.attempt = r + 1]
    IN  CASE wr = "ok" ->
                Suspend([S0 EXCEPT !.inflight = Append(@, sec),
                                   !.writes = Append(@, sec),
                                   !.count.outstanding = @ + 1,
                                   !.obs.overlap = @ \/ (S.count.outstanding > 0)],
                        "write_sleep", stack, sec, r)
          [] wr = "not_supported" ->
                IF r + 1 < MAX_RETRIES
                THEN Suspend(Fault(S0), "write_retry", stack, sec, r + 1)
                ELSE Suspend(Fault(S0), "write_failed", stack, sec, r + 1)
          [] wr = "error" ->
                Suspend(Fault(S0), "write_failed", stack, sec, r)

\* A read that arms no timer.
call_later_dropped(S) == S

\* self.read_timeout = self.loop.call_later(READ_TIMEOUT, self.on_read_timeout):
\* a new pending timer; the one the handle held, if still pending, stays
\* scheduled with nothing left to cancel it.
call_later(S) ==
    [S EXCEPT !.read_timeout = "pending",
              !.orphans = @ + (IF S.read_timeout = "pending" THEN 1 ELSE 0)]

\* A read that does not look at the connection before it arms the timer and
\* writes.
base_read_section_unguarded(S, e, stack) ==
    LET S1 == call_later([S EXCEPT !.emitted = NoSnapshot])
    IN  [S |-> characteristic_write_value(S1, e.wr, stack, S1.section_index, 0),
         out |-> "await"]

\* BaseClient.read_section (lines 141-153) up to its await.  e.rz: building the
\* request raises (line 152, after the timer is armed); e.wr: the outcome of
\* the first write.  The result says how the call ended: "await" (suspended in
\* the write), "ret" (returned) or "raise".
base_read_section(S, e, stack) ==
    IF ~S.connected
    THEN [S |-> stop(S), out |-> "ret"]
    ELSE LET S1 == call_later([S EXCEPT !.emitted = NoSnapshot])
         IN  IF e.rz
             THEN [S |-> [Fault(S1) EXCEPT !.count.raises = @ + 1], out |-> "raise"]
             ELSE [S |-> characteristic_write_value(S1, e.wr, stack, S1.section_index, 0),
                   out |-> "await"]

\* The environment's choice once it has been used in a step.
Quiet == [rz |-> FALSE, wr |-> "ok"]


(***************************************************************************)
(* BatteryClient.read_section and the returns through the awaiting callers *)
(***************************************************************************)
RECURSIVE Return(_, _, _), Raise(_, _, _)

\* The awaited call returned normally to the innermost caller on `stack`:
\*   "conn"  BaseClient.connect, line 60: connect returns;
\*   "rec"   the recovery of BatteryClient.read_section, line 80: connect()
\*           returned, so if connected read again (lines 82-83), and that
\*           read raising is caught and stops the session (lines 84-86);
\*   "rec2"  the recovery, line 83: read_section returns;
\*   "try", "exc"  on_data_received (its try block, its except block): the
\*           handler is done.
Return(S, e, stack) ==
    IF stack = <<>>
    THEN S
    ELSE LET top == Last(stack)
             rest == Front(stack)
         IN  CASE top = "conn" -> Return(S, e, rest)
               [] top = "rec" ->
                    IF S.connected
                    THEN LET r == base_read_section(S, e, Append(rest, "rec2"))
                         IN  CASE r.out = "await" -> r.S
                               [] r.out = "ret" -> Return(r.S, e, rest)
                               [] r.out = "raise" -> Return(stop(r.S), Quiet, rest)
                    ELSE Return(S, e, rest)
               [] top = "rec2" -> Return(S, e, rest)
               [] top \in {"try", "exc"} -> S

\* The awaited call raised an Exception to the innermost caller on `stack`:
\*   "conn"  BaseClient.connect catches nothing;
\*   "rec", "rec2"  the recovery catches it and stops (lines 84-86);
\*   "try"   on_data_received's except block (lines 113-124);
\*   "exc"   raised inside the except block: BLEManager.notification_callback
\*           logs it;
\*   <<>>    the task created by BaseClient.start dies with the exception.
Raise(S, e, stack) ==
    IF stack = <<>>
    THEN S
    ELSE LET top == Last(stack)
             rest == Front(stack)
         IN  CASE top = "conn" -> Raise(S, e, rest)
               [] top \in {"rec", "rec2"} -> Return(stop(S), e, rest)
               [] top = "try" -> advance(S, "exc", "exception")
               [] top = "exc" -> S

\* BLEManager.disconnect as awaited by the recovery (lines 69-73): it awaits
\* client.disconnect() only when the client is connected.
recover(S, stack) ==
    LET S1 == [S EXCEPT !.count.recoveries = @ + 1]
    IN  IF S1.connected
        THEN Spawn(S1, Task("recover_disconnect", Append(stack, "rec"), -1, 0))
        ELSE Spawn(S1, Task("recover_sleep", Append(stack, "rec"), -1, 0))

\* BatteryClient.read_section (lines 58-89) up to its await, called by the
\* innermost caller on `stack`.
read_section(S, e, stack) ==
    LET r == base_read_section(S, e, stack)
    IN  CASE r.out = "await" -> r.S
          [] r.out = "ret" -> Return(r.S, e, stack)
          [] r.out = "raise" ->
                IF r.S.section_index = 0 /\ r.S.attempt_count < MAX_BATTERY_ATTEMPTS
                THEN recover(r.S, stack)
                ELSE Raise(r.S, Quiet, stack)

\* BaseClient.connect up to its first await: a new BLEManager (no client yet),
\* then discover().
connect(S, stack) ==
    Spawn([S EXCEPT !.connected = FALSE, !.inflight = <<>>],
          Task("discover", Append(stack, "conn"), -1, 0))


(***************************************************************************)
(* Environment                                                             *)
(***************************************************************************)
\* The device's answers to the request for section k.  The first is the
\* well-formed one; the others are a short frame, the device's read-error
\* frame, a frame with another function code, a frame with a wrong checksum
\* and a frame whose payload the parser cannot decode.
Response(op, len, crc, poison, req) ==
    [op |-> op, len |-> len, crc |-> crc, poison |-> poison, req |-> req]

GoodAnswer(k) == Response(READ_SUCCESS, ExpectedLen(k), TRUE, FALSE, k)

MalformedAnswers(k) ==
    { Response(READ_SUCCESS, ExpectedLen(k) - 2, TRUE, FALSE, k),
      Response(READ_ERROR, 5, TRUE, FALSE, k),
      Response(OTHER_FUNCTION, 8, TRUE, FALSE, k) }

CorruptAnswers(k) ==
    { Response(READ_SUCCESS, ExpectedLen(k), FALSE, FALSE, k),
      Response(READ_SUCCESS, ExpectedLen(k), TRUE, TRUE, k) }

\* Notifications no outstanding request accounts for (req = -1): a repeated
\* or late read frame, either of the length the current section expects
\* (sections 0 and 1 have the same word count) or of another length.
Unsolicited(S) ==
    { Response(READ_SUCCESS, ExpectedLen(S.section_index), TRUE, FALSE, -1),
      Response(READ_SUCCESS, ExpectedLen(S.section_index) - 2, TRUE, FALSE, -1) }

\* What the transport does to the calls made in one step: whether building
\* the request raises in BaseClient.read_section, and how the write ends.
Choices(S) ==
    {Quiet} \cup
    (IF S.count.faults < MaxFaults
     THEN { [rz |-> TRUE, wr |-> "ok"],
            [rz |-> FALSE, wr |-> "not_supported"],
            [rz |-> FALSE, wr |-> "error"] }
     ELSE {})

\* The loop runs until the future is resolved: run_until_complete stops it in
\* the iteration after set_result, in which no sleep, timer or transport
\* event is taken to complete.
Running == started = "running" /\ ~futureDone

Suspended(pc) == { t \in BagToSet(tasks) : t.pc = pc }

Resolve(S) == [S EXCEPT !.count.outstanding = IF @ > 0 THEN @ - 1 ELSE 0]

(***************************************************************************)
(* Initial state: a constructed BatteryClient, start() not yet called      *)
(***************************************************************************)
Boot(spent) ==
    /\ section_index = 0
    /\ data = EmptyData
    /\ read_timeout = "none"
    /\ attempt_count = 0
    /\ enable_polling \in BOOLEAN
    /\ futureDone = FALSE
    /\ started = "idle"
    /\ tasks = EmptyBag
    /\ orphans = 0
    /\ connected = FALSE
    /\ inflight = <<>>
    /\ writes = <<>>
    /\ log = <<>>
    /\ emitted = NoSnapshot
    /\ count = [snapshots |-> 0, stops |-> 0, errors |-> 0, connects |-> 0,
                recoveries |-> 0, timeouts |-> 0, notifications |-> 0, faults |-> spent, raises |-> 0,
                outstanding |-> 0, resolved |-> 0]
    /\ obs = [overlap |-> FALSE, dirty |-> FALSE, linked |-> FALSE,
              unsupported |-> FALSE, raised |-> FALSE, absent |-> FALSE,
              wrote |-> "none", attempt |-> 0]

\* No device configuration taken yet by the supervisor's loop.
NoDevices == [next |-> 1, log |-> <<>>, starts |-> 0]

\* No frame asked for.
NoRequest == [device_id |-> 0, regAddr |-> 0, readWrd |-> 0, frame |-> <<>>]

\* The devices the snapshots come from, by the address of client.ble_manager
\* .device, and the type each is configured with.
Addresses == {"aa", "bb"}

device_type(d) == IF d = "aa" THEN "RNG_BATT" ELSE "RNG_CTRL"

\* DeviceManager.__init__ (lines 12-60): nothing sent yet, and the entity
\* mappings of _get_battery_entity_mapping and _get_controller_entity_mapping
\* by their field names.
DeviceManager ==
    [discovery |-> TRUE,
     device_entity_mappings |->
        [t \in {"RNG_BATT", "RNG_CTRL"} |->
            IF t = "RNG_BATT"
            THEN {"voltage", "current", "remaining_charge", "capacity", "cell_count",
                  "sensor_count"}
            ELSE {"battery_percentage", "battery_voltage", "battery_current",
                  "battery_temperature", "pv_voltage", "pv_current", "pv_power",
                  "power_generation_today", "power_generation_total",
                  "controller_temperature", "charging_status", "load_status",
                  "load_voltage", "load_current", "load_power"}],
     mqtt_discovery_sent |-> [d \in Addresses |-> {}],
     published |-> [d \in Addresses |-> <<>>],
     skipped |-> {}]

\* HomeAssistantIntegration.__init__ (run.py lines 29-35).
HomeAssistantIntegration ==
    [discovery |-> TRUE,
     mqtt_discovery_sent |-> [d \in Addresses |-> {}],
     published |-> [d \in Addresses |-> <<>>],
     skipped |-> {}]

\* Nothing of the discovery has happened.
NoDiscovery ==
    /\ device_manager = DeviceManager
    /\ integration = HomeAssistantIntegration

Init == Boot(0) /\ sup = NoDevices /\ request = NoRequest /\ NoDiscovery

(***************************************************************************)
(* Actions                                                                 *)
(***************************************************************************)
\* BatteryClient.start -> _attempt_start -> BaseClient.start: the attempt is
\* counted, connect() is scheduled, the future is created and the loop runs.
Start ==
    /\ started = "idle"
    /\ started' = "running"
    /\ Commit(connect([Session EXCEPT !.attempt_count = 1, !.futureDone = FALSE], <<>>))

\* A connect() that goes on to the transport connect although discovery
\* found no device.
device_not_found_connects(S, stack) ==
    Spawn([S EXCEPT !.obs.absent = TRUE], Task("ble_connect", stack, -1, 0))

\* BaseClient.connect lines 52-57: discovery returned without a device; the
\* session logs, stops and returns from connect() (lines 59-60 are skipped).
device_not_found(S, stack) ==
    Return(stop([S EXCEPT !.obs.absent = TRUE]), Quiet, stack)

\* BLEManager.discover returns (BaseClient.connect lines 50-59).
Discover ==
    /\ Running
    /\ \E t \in Suspended("discover") :
         LET S0 == Kill(Session, t)
         IN  \/ Commit(Spawn(S0, Task("ble_connect", t.stack, -1, 0)))
             \/ Commit(device_not_found(S0, t.stack))
             \/ /\ count.faults < MaxFaults
                /\ Commit(Raise(Fault(S0), Quiet, t.stack))
    /\ UNCHANGED started

\* Every error of the connect sequence reported and stopping the session.
connect_except_fatal(S, err) ==
    CASE err = "none" -> S
      [] err = "dbus_not_supported" ->
             stop(on_error_callback([S EXCEPT !.obs.unsupported = TRUE]))
      [] OTHER -> on_connect_fail(S, err)

\* The except clauses of BLEManager.connect (lines 54-61, 85-95) for what
\* client.connect() or start_notify raised: a BleakDBusError saying
\* "Operation is not supported" is passed over, any other error goes to
\* connect_fail_callback.
connect_except(S, err) ==
    CASE err = "none" -> S
      [] err = "dbus_not_supported" -> [S EXCEPT !.obs.unsupported = TRUE]
      [] OTHER -> on_connect_fail(S, err)

\* Whether the caller's handlers raise in this step; asked only in a step
\* that calls one.
Handlers(called) == IF called THEN BOOLEAN ELSE {FALSE}

\* BLEManager.connect returns (lines 36-95), then BaseClient.connect line 60.
\* err: what client.connect() or start_notify raised; conn: is_connected after.
\* An exception leaving the failure callback would leave connect() too.
BleConnect ==
    /\ Running
    /\ \E t \in Suspended("ble_connect"),
          err \in {"none", "dbus_not_supported", "dbus_other", "generic"},
          conn \in BOOLEAN :
         \E cb \in Handlers(err \in {"dbus_other", "generic"}) :
            LET S0 == [Kill(Session, t) EXCEPT !.connected = conn,
                                               !.count.connects = @ + 1,
                                               !.obs.linked = @ \/ conn,
                                               !.cb = cb]
                S1 == connect_except(S0, err)
            IN  \E e \in Choices(S1) :
                    CASE S1.exc -> Commit(Raise([S1 EXCEPT !.exc = FALSE], Quiet, t.stack))
                      [] ~S1.exc /\ S1.connected -> Commit(read_section(S1, e, t.stack))
                      [] ~S1.exc /\ ~S1.connected -> Commit(Return(S1, e, t.stack))
    /\ UNCHANGED started

\* The device answers the oldest request; the notification is handled by
\* on_data_received up to its first await.
Notify ==
    /\ Running
    /\ connected
    /\ count.notifications < MaxNotifications
    /\ inflight # <<>>
    /\ \E cb \in Handlers(section_index >= N - 1) :
         LET k == Head(inflight)
             S0 == Resolve([Session EXCEPT !.inflight = Tail(@), !.cb = cb])
         IN  \/ Commit(on_data_received(S0, GoodAnswer(k)))
             \/ /\ count.faults < MaxFaults
                /\ \E resp \in MalformedAnswers(k) : Commit(on_data_received(Fault(S0), resp))
             \/ /\ count.faults < MaxFaults
                /\ \E resp \in CorruptAnswers(k) : Commit(on_data_received(Budget(S0), resp))
    /\ UNCHANGED started

\* A notification that answers no outstanding request.
Spurious ==
    /\ Running
    /\ connected
    /\ count.notifications < MaxNotifications
    /\ count.faults < MaxFaults
    /\ \E resp \in Unsolicited(Session), cb \in Handlers(section_index >= N - 1) :
         Commit(on_data_received(Fault(Resolve([Session EXCEPT !.cb = cb])), resp))
    /\ UNCHANGED started

\* asyncio.sleep(0.5) of on_data_received ends: read the next section.
PaceWake ==
    /\ Running
    /\ \E t \in Suspended("pace") : \E e \in Choices(Session) :
         Commit(read_section(Kill(Session, t), e, t.stack))
    /\ UNCHANGED started

\* asyncio.sleep(poll_interval) of check_polling ends: read section 0 again.
PollWake ==
    /\ Running
    /\ \E t \in Suspended("poll_sleep") : \E e \in Choices(Session) :
         Commit(read_section(Kill(Session, t), e, t.stack))
    /\ UNCHANGED started

\* characteristic_write_value wakes: from the sleep after a write or from a
\* failed write it returns; from the 1 s sleep it writes again.
WriteWake ==
    /\ Running
    /\ \/ \E t \in Suspended("write_sleep") \cup Suspended("write_failed") :
            \E e \in Choices(Session) : Commit(Return(Kill(Session, t), e, t.stack))
       \/ \E t \in Suspended("write_retry") :
            \E wr \in {"ok", "not_supported", "error"} :
               /\ wr = "ok" => connected
               /\ wr # "ok" => count.faults < MaxFaults
               /\ Commit(characteristic_write_value(Kill(Session, t), wr, t.stack, t.sec, t.r))
    /\ UNCHANGED started

\* A timeout that is only logged.
on_read_timeout_logged(S) == [S EXCEPT !.count.timeouts = @ + 1, !.count.outstanding = 0]

\* BaseClient.on_read_timeout: the timer in self.read_timeout fires.
on_read_timeout(S) == stop([S EXCEPT !.count.timeouts = @ + 1, !.count.outstanding = 0])

\* While the device holds a request it has not answered, the timer firing
\* is the device being late (a misbehaviour); with no request at the device
\* (the write failed, the link is down) it is what must happen.
TimerFire ==
    /\ Running
    /\ read_timeout = "pending"
    /\ LET S0 == [Session EXCEPT !.read_timeout = "fired"]
       IN  IF inflight # <<>>
           THEN /\ count.faults < MaxFaults
                /\ Commit(on_read_timeout(Budget(S0)))
           ELSE Commit(on_read_timeout(S0))
    /\ UNCHANGED started

\* A timer whose handle was overwritten by a later read_section fires.
OrphanFire ==
    /\ Running
    /\ orphans > 0
    /\ Commit(on_read_timeout([Session EXCEPT !.orphans = @ - 1]))
    /\ UNCHANGED started

\* The timer in self.read_timeout fires, whatever the device holds: the
\* device stays silent for READ_TIMEOUT.
Timeout ==
    /\ Running
    /\ read_timeout = "pending"
    /\ Commit(on_read_timeout([Session EXCEPT !.read_timeout = "fired"]))
    /\ UNCHANGED started

\* The recovery's ble_manager.disconnect() ends (its error is ignored), then
\* asyncio.sleep(2).
RecoverDisconnect ==
    /\ Running
    /\ \E t \in Suspended("recover_disconnect") :
         LET S0 == Spawn(Kill(Session, t), Task("recover_sleep", t.stack, -1, 0))
         IN  \/ Commit([S0 EXCEPT !.connected = FALSE, !.inflight = <<>>])
             \/ /\ count.faults < MaxFaults
                /\ Commit(Fault(S0))
    /\ UNCHANGED started

\* The recovery's sleep ends: self.connect() (line 80).
RecoverReconnect ==
    /\ Running
    /\ \E t \in Suspended("recover_sleep") : Commit(connect(Kill(Session, t), t.stack))
    /\ UNCHANGED started

\* client.disconnect() ends: the link is down and the future is resolved, or
\* it raised and BaseClient.disconnect is left by the exception.
DisconnectDone ==
    /\ Running
    /\ \E t \in Suspended("disconnecting") :
         \/ Commit(set_result([Kill(Session, t) EXCEPT !.connected = FALSE,
                                                       !.inflight = <<>>]))
         \/ /\ count.faults < MaxFaults
            /\ Commit(Fault(Kill(Session, t)))
    /\ UNCHANGED started

\* The device goes out of range.
LinkDrop ==
    /\ Running
    /\ connected
    /\ count.faults < MaxFaults
    /\ Commit(Fault([Session EXCEPT !.connected = FALSE, !.inflight = <<>>]))
    /\ UNCHANGED started

\* run_until_complete(self.future) returns; BaseClient.start returns without
\* raising (it catches every Exception itself), so _attempt_start returns True
\* and the retry loop of BatteryClient.start (lines 39-42) is not entered.
StartReturns ==
    /\ started = "running"
    /\ futureDone
    /\ LET success == TRUE
       IN  IF ~success /\ attempt_count < MAX_BATTERY_ATTEMPTS
           THEN /\ started' = "running"
                /\ Commit(connect([Session EXCEPT !.attempt_count = @ + 1,
                                                  !.futureDone = FALSE], <<>>))
           ELSE /\ started' = "returned"
                /\ Commit(Session)

Next ==
    \/ Start
    \/ Discover
    \/ BleConnect
    \/ Notify
    \/ Spurious
    \/ PaceWake
    \/ PollWake
    \/ WriteWake
    \/ TimerFire
    \/ OrphanFire
    \/ RecoverDisconnect
    \/ RecoverReconnect
    \/ DisconnectDone
    \/ LinkDrop
    \/ StartReturns

Spec == Init /\ [][Next]_vars


(***************************************************************************)
(* A transport that never misbehaves but may stay silent: no fault is left *)
(* in the budget, and a pending read timer fires whenever the loop runs    *)
(* long enough (asyncio runs every due timer of a running loop).           *)
(***************************************************************************)
InitSilent == Boot(MaxFaults) /\ sup = NoDevices /\ request = NoRequest /\ NoDiscovery

NextSilent ==
    \/ Start
    \/ Discover
    \/ BleConnect
    \/ Notify
    \/ PaceWake
    \/ PollWake
    \/ Timeout
    \/ DisconnectDone
    \/ StartReturns

SpecSilent == InitSilent /\ [][NextSilent]_vars /\ WF_vars(Timeout)

(***************************************************************************)
(* The supervisor: HomeAssistantIntegration.start (run.py) takes the       *)
(* device configurations one by one and, on its own thread, constructs a   *)
(* client for each and calls its start(), which returns when the session   *)
(* has ended.  Every configuration is given enable_polling 'true'.         *)
(***************************************************************************)
\* Device configurations in self.device_configs.
Devices == 3

\* What an iteration of the loop meets: a battery (config['device']['type'] is
\* 'RNG_BATT'), a type no branch of the loop handles, or an exception raised
\* while the client is constructed.  The clients of the other device types are
\* not part of the sources.
Outcomes == {"RNG_BATT", "unknown", "raises"}

\* The loop has taken a configuration, with the given outcome.
taken(s, outcome) == [s EXCEPT !.next = @ + 1, !.log = Append(@, outcome)]

\* An exception that ends the loop over the configurations.
start_error_leaves_loop(s) ==
    [s EXCEPT !.next = Devices + 1, !.log = Append(@, "raised")]

\* run.py lines 637-638: the exception of one device is logged inside the
\* loop, which goes on with the next configuration.
start_error(s) == taken(s, "raised")

\* run.py lines 621-622 and BaseClient.__init__ / BatteryClient.__init__: a
\* new event loop, in which nothing is scheduled, and a new client.
BatteryClient(S) ==
    [S EXCEPT !.section_index = 0,
              !.data = EmptyData,
              !.read_timeout = "none",
              !.attempt_count = 0,
              !.enable_polling = TRUE,
              !.futureDone = FALSE,
              !.tasks = EmptyBag,
              !.orphans = 0,
              !.connected = FALSE,
              !.inflight = <<>>,
              !.writes = <<>>,
              !.log = <<>>,
              !.emitted = NoSnapshot,
              !.count = [snapshots |-> 0, stops |-> 0, errors |-> 0, connects |-> 0,
                         recoveries |-> 0, timeouts |-> 0, notifications |-> 0,
                         faults |-> S.count.faults, raises |-> 0, outstanding |-> 0, resolved |-> 0],
              !.obs = [overlap |-> FALSE, dirty |-> FALSE, linked |-> FALSE,
                       unsupported |-> FALSE, raised |-> FALSE, absent |-> FALSE,
                       wrote |-> "none", attempt |-> 0]]

\* A start() that returns at once and leaves its session running.
start_in_background == TRUE

\* BaseClient.start line 39, as called in run.py lines 624-633: the thread of
\* the loop is inside run_until_complete(self.future) from the start() call
\* until the session's future is resolved.
start_returned == started # "running"

\* One iteration of `for config in self.device_configs` (run.py lines
\* 616-638) up to the point where it blocks or ends.  The loop is between two
\* iterations only while no start() call is running.
Supervise ==
    /\ start_returned
    /\ sup.next <= Devices
    /\ \E outcome \in Outcomes :
         CASE outcome = "RNG_BATT" ->
                 /\ started' = "running"
                 /\ Commit(connect([BatteryClient(Session) EXCEPT
                                        !.attempt_count = 1,
                                        !.sup = [taken(sup, "started") EXCEPT
                                                     !.starts = @ + 1]],
                                   <<>>))
           [] outcome = "unknown" ->
                 /\ started' = started
                 /\ Commit([Session EXCEPT !.sup = taken(sup, "unknown")])
           [] outcome = "raises" ->
                 /\ started' = started
                 /\ Commit([Session EXCEPT !.sup = start_error(sup)])

InitSupervisor ==
    /\ Boot(MaxFaults)
    /\ enable_polling
    /\ sup = NoDevices
    /\ request = NoRequest
    /\ NoDiscovery

NextSupervisor ==
    \/ Supervise
    \/ Discover
    \/ BleConnect
    \/ Notify
    \/ PaceWake
    \/ PollWake
    \/ Timeout
    \/ DisconnectDone
    \/ StartReturns

SpecSupervisor == InitSupervisor /\ [][NextSupervisor]_vars

(***************************************************************************)
(* The frame codec: BaseClient.create_generic_read_request, as read_section *)
(* calls it (line 152, function 3).  Utils.int_to_bytes and                 *)
(* Utils.crc16_modbus are not part of the sources; they are modelled from   *)
(* the specification: the high and the low byte of a 16-bit value, and the  *)
(* CRC16 of Modbus (initial value 0xFFFF, reflected polynomial 0xA001, one  *)
(* byte at a time), returned low byte first.                                *)
(***************************************************************************)
\* The first register of each section (BatteryClient.sections).
Registers == <<5000, 5017, 5042, 5122, 5223>>

\* The arguments the frames are built for: the default device id of run.py
\* and two others; the registers and word counts of BatteryClient's sections,
\* those of the standard test vectors, and the extremes of 16 bits.
DeviceIds == {1, 48, 255}

RegAddrs == { Registers[k] : k \in 1 .. N } \cup {0, 256, 65535}

WordCounts == { Words[k] : k \in 1 .. N } \cup {7, 65535}

\* a ^ b on naturals, bit by bit.
xor(a, b) ==
    LET X[p \in Nat \X Nat] ==
            IF p[1] = 0 THEN p[2]
            ELSE IF p[2] = 0 THEN p[1]
            ELSE 2 * X[<<p[1] \div 2, p[2] \div 2>>] + ((p[1] + p[2]) % 2)
    IN  X[<<a, b>>]

\* Utils.int_to_bytes(i, pos): byte `pos` of the 16-bit value i, the high
\* byte at position 0.
int_to_bytes(i, pos) == IF pos = 0 THEN (i \div 256) % 256 ELSE i % 256

\* k rounds of the CRC's shift register: shift right, and xor 0xA001 in when a
\* one was shifted out.
crc_shift(crc, k) ==
    LET step[c \in Nat] == IF c % 2 = 1 THEN xor(c \div 2, 40961) ELSE c \div 2
        R[j \in 0 .. k] == IF j = 0 THEN crc ELSE step[R[j - 1]]
    IN  R[k]

\* The CRC register after all the bytes: each byte is xor-ed in and shifted
\* through eight rounds.
crc_bytes(crc, bytes) ==
    LET byte[c \in Nat] == crc_shift(c, 8)
        B[n \in 0 .. Len(bytes)] ==
            IF n = 0 THEN crc ELSE byte[xor(B[n - 1], bytes[n])]
    IN  B[Len(bytes)]

\* Utils.crc16_modbus(data): the two bytes of the CRC, low byte first.
crc16_modbus(bytes) ==
    LET crc == crc_bytes(65535, bytes)
    IN  <<crc % 256, crc \div 256>>

\* A request whose checksum is appended high byte first.
create_generic_read_request_high_first(device_id, function, regAddr, readWrd) ==
    LET body == <<device_id, function, int_to_bytes(regAddr, 0), int_to_bytes(regAddr, 1),
                  int_to_bytes(readWrd, 0), int_to_bytes(readWrd, 1)>>
        crc == crc16_modbus(body)
    IN  body \o <<crc[2], crc[1]>>

\* BaseClient.create_generic_read_request (lines 155-170), for a register
\* address and a word count that are given (not None).
create_generic_read_request(device_id, function, regAddr, readWrd) ==
    LET body == <<device_id, function, int_to_bytes(regAddr, 0), int_to_bytes(regAddr, 1),
                  int_to_bytes(readWrd, 0), int_to_bytes(readWrd, 1)>>
        crc == crc16_modbus(body)
    IN  body \o <<crc[1], crc[2]>>

\* read_section line 152: the request for a section is built.
Encode ==
    /\ request.frame = <<>>
    /\ Commit([Session EXCEPT !.request.frame =
                   create_generic_read_request(request.device_id, READ_SUCCESS,
                                               request.regAddr, request.readWrd)])
    /\ UNCHANGED started

InitRequest ==
    /\ Boot(MaxFaults)
    /\ enable_polling
    /\ sup = NoDevices
    /\ request \in [device_id : DeviceIds, regAddr : RegAddrs, readWrd : WordCounts,
                    frame : {<<>>}]
    /\ NoDiscovery

NextRequest == Encode

SpecRequest == InitRequest /\ [][NextRequest]_vars

(***************************************************************************)
(* A device that never answers behind a transport that misbehaves up to    *)
(* MAX_RETRIES times in a row, so that one characteristic_write_value call *)
(* can fail on every attempt of its retry loop.                            *)
(***************************************************************************)
InitWrite ==
    /\ Boot(MaxFaults - MAX_RETRIES)
    /\ enable_polling
    /\ sup = NoDevices
    /\ request = NoRequest
    /\ NoDiscovery

NextWrite ==
    \/ Start
    \/ Discover
    \/ BleConnect
    \/ WriteWake
    \/ Timeout
    \/ DisconnectDone
    \/ StartReturns

SpecWrite == InitWrite /\ [][NextWrite]_vars

(***************************************************************************)
(* The same transport with a device from which notifications that no       *)
(* request accounts for may arrive.                                        *)
(***************************************************************************)
NextStray ==
    \/ Start
    \/ Discover
    \/ BleConnect
    \/ Spurious
    \/ PaceWake
    \/ WriteWake
    \/ TimerFire
    \/ DisconnectDone
    \/ StartReturns

SpecStray == InitWrite /\ [][NextStray]_vars

(***************************************************************************)
(* A device that answers every request, but with answers that need not     *)
(* decode, in any number; the transport does nothing else wrong, and the   *)
(* device may also stay silent.                                            *)
(***************************************************************************)
InitGarbled ==
    /\ Boot(MaxFaults)
    /\ sup = NoDevices
    /\ request = NoRequest
    /\ NoDiscovery

\* The device answers the oldest request with a frame on_data_received does
\* not decode: a short one, its read-error frame, one with another function
\* code, or one whose payload makes the parser raise.
NotifyGarbled ==
    /\ Running
    /\ connected
    /\ count.notifications < MaxNotifications
    /\ inflight # <<>>
    /\ \E cb \in Handlers(section_index >= N - 1) :
         LET k == Head(inflight)
             S0 == Resolve([Session EXCEPT !.inflight = Tail(@), !.cb = cb,
                                           !.obs.dirty = TRUE])
         IN  \E resp \in MalformedAnswers(k)
                           \cup {Response(READ_SUCCESS, ExpectedLen(k), TRUE, TRUE, k)} :
                Commit(on_data_received(S0, resp))
    /\ UNCHANGED started

NextGarbled ==
    \/ Start
    \/ Discover
    \/ BleConnect
    \/ Notify
    \/ NotifyGarbled
    \/ PaceWake
    \/ PollWake
    \/ Timeout
    \/ DisconnectDone
    \/ StartReturns

SpecGarbled == InitGarbled /\ [][NextGarbled]_vars

(***************************************************************************)
(* Home Assistant discovery: DeviceManager.send_mqtt_discovery and the     *)
(* _send_mqtt_discovery of run.py, which on_data_received calls with every *)
(* snapshot.  Each announces the fields of a snapshot once for each device. *)
(***************************************************************************)
\* The snapshots handed over (device_data), as the fields of the dict in its
\* order: a battery's, with one cell; one with the cell's voltage but no cell
\* count; one that counts no cells; a charge controller's; the tags alone.
Snapshots ==
    { << <<"function", 3>>, <<"cell_count", 1>>, <<"cell_voltage_0", 33>>,
         <<"voltage", 132>>, <<"__device", 0>>, <<"__client", 0>> >>,
      << <<"cell_voltage_0", 33>>, <<"voltage", 132>>, <<"__device", 0>> >>,
      << <<"cell_count", 0>>, <<"cell_voltage_0", 33>>, <<"__device", 0>> >>,
      << <<"function", 3>>, <<"battery_voltage", 132>>, <<"__device", 0>> >>,
      << <<"__device", 0>>, <<"__client", 0>> >> }

\* The keys of a dict, in its order, and as a set.
keys(device_data) == [i \in 1 .. Len(device_data) |-> device_data[i][1]]

has(device_data, field) == \E i \in 1 .. Len(device_data) : device_data[i][1] = field

get(device_data, field, default) ==
    IF has(device_data, field)
    THEN device_data[CHOOSE i \in 1 .. Len(device_data) : device_data[i][1] = field][2]
    ELSE default

\* How publishing one discovery message ends: published; connect or publish
\* raised; mqtt.Client or username_pw_set raised, before any publish.
PublishOutcomes == {"published", "publish_failed", "client_failed"}

\* The entity_mapping of run.py (lines 220-313), by its field names.
entity_mapping ==
    {"battery_percentage", "battery_voltage", "battery_current", "battery_temperature",
     "pv_voltage", "pv_current", "pv_power", "power_generation_today",
     "power_generation_total", "controller_temperature", "charging_status",
     "load_status", "load_voltage", "load_current", "load_power"}

\* The publishes a call attempts, appended to those of device d.
attempts(M, d, fields, out) ==
    LET reached(f) == out[f] # "client_failed"
        tried == SelectSeq(fields, reached)
    IN  [M EXCEPT !.published[d] =
                      @ \o [i \in 1 .. Len(tried) |->
                               [field |-> tried[i], outcome |-> out[tried[i]]]]]

\* DeviceManager.send_mqtt_discovery, lines 317-340: the cell voltages a
\* battery's snapshot counts are given an entity mapping (cell 0 stands for
\* them all; the temperature sensors are handled alike).
dynamic_fields(d, device_data) ==
    IF /\ device_type(d) = "RNG_BATT"
       /\ has(device_data, "cell_count")
       /\ get(device_data, "cell_count", 0) > 0
       /\ has(device_data, "cell_voltage_0")
    THEN {"cell_voltage_0"}
    ELSE {}

\* The fields of a snapshot DeviceManager.send_mqtt_discovery goes on to
\* publish (lines 343-356), in the order of the dict: not internal ('__'),
\* not yet sent for this device, with an entity mapping.
to_publish(M, d, device_data) ==
    LET mapping == M.device_entity_mappings[device_type(d)] \cup dynamic_fields(d, device_data)
        wanted(f) == f \notin Tags /\ f \notin M.mqtt_discovery_sent[d] /\ f \in mapping
    IN  SelectSeq(keys(device_data), wanted)

\* Fields that are published again although they were sent.
send_mqtt_discovery_unmarked(M, d, device_data, out) ==
    IF ~M.discovery
    THEN [M EXCEPT !.skipped = {}]
    ELSE attempts(M, d, to_publish(M, d, device_data), out)

\* DeviceManager.send_mqtt_discovery (lines 275-403) with
\* _publish_discovery_message (lines 405-423), which swallows every error:
\* each field published is marked as sent whatever became of the publish.
send_mqtt_discovery(M, d, device_data, out) ==
    IF ~M.discovery
    THEN [M EXCEPT !.skipped = {}]
    ELSE LET fields == to_publish(M, d, device_data)
             M1 == [M EXCEPT !.device_entity_mappings[device_type(d)] =
                                 @ \cup dynamic_fields(d, device_data),
                             !.mqtt_discovery_sent[d] =
                                 @ \cup { fields[i] : i \in 1 .. Len(fields) },
                             !.skipped =
                                 { <<d, device_data[i][1]>> : i \in 1 .. Len(device_data) }
                                    \cap ({d} \X M.mqtt_discovery_sent[d])]
         IN  attempts(M1, d, fields, out)

\* The fields of a snapshot run.py's _send_mqtt_discovery goes on to publish
\* (line 322).
integration_to_publish(I, d, device_data) ==
    LET wanted(f) == f \in entity_mapping /\ f \notin I.mqtt_discovery_sent[d]
    IN  SelectSeq(keys(device_data), wanted)

\* HomeAssistantIntegration._send_mqtt_discovery (run.py lines 193-388): a
\* field is marked as sent after connect and publish, failed or not (lines
\* 382-385); an exception before them leaves it unmarked (line 387).
integration_send_mqtt_discovery(I, d, device_data, out) ==
    IF ~I.discovery
    THEN [I EXCEPT !.skipped = {}]
    ELSE LET fields == integration_to_publish(I, d, device_data)
             I1 == [I EXCEPT !.mqtt_discovery_sent[d] =
                                 @ \cup { f \in { fields[i] : i \in 1 .. Len(fields) } :
                                              out[f] # "client_failed" },
                             !.skipped =
                                 { <<d, device_data[i][1]>> : i \in 1 .. Len(device_data) }
                                    \cap ({d} \X I.mqtt_discovery_sent[d])]
         IN  attempts(I1, d, fields, out)

\* A snapshot of device d is handed to DeviceManager.send_mqtt_discovery.
SendDiscovery ==
    /\ \E d \in Addresses, device_data \in Snapshots :
         LET fields == to_publish(device_manager, d, device_data)
         IN  \E out \in [{ fields[i] : i \in 1 .. Len(fields) } -> PublishOutcomes] :
                Commit([Session EXCEPT !.device_manager =
                            send_mqtt_discovery(device_manager, d, device_data, out)])
    /\ UNCHANGED started

\* on_data_received of run.py hands a snapshot of device d to
\* _send_mqtt_discovery (lines 504-506).
IntegrationDiscovery ==
    /\ \E d \in Addresses, device_data \in Snapshots :
         LET fields == integration_to_publish(integration, d, device_data)
         IN  \E out \in [{ fields[i] : i \in 1 .. Len(fields) } -> PublishOutcomes] :
                Commit([Session EXCEPT !.integration =
                            integration_send_mqtt_discovery(integration, d, device_data, out)])
    /\ UNCHANGED started

InitDiscovery ==
    /\ Boot(MaxFaults)
    /\ enable_polling
    /\ sup = NoDevices
    /\ request = NoRequest
    /\ \E discovery \in BOOLEAN :
          device_manager = [DeviceManager EXCEPT !.discovery = discovery]
    /\ integration = HomeAssistantIntegration

NextDiscovery ==
    \/ SendDiscovery
    \/ IntegrationDiscovery

SpecDiscovery == InitDiscovery /\ [][NextDiscovery]_vars

(***************************************************************************)
(* Properties                                                              *)
(***************************************************************************)
\* The notification processed by the step just taken.
Processed == IF log # <<>> THEN Last(log) ELSE Last(emitted.log)

\* The step processes a notification / runs on_read_timeout.
NotificationStep == count'.notifications = count.notifications + 1

TimeoutStep == count'.timeouts = count.timeouts + 1

Delivered == emitted.via # "none"

\* The snapshot fields written by section i's parser.
WrittenBy(snapshot, i) == { f \in DOMAIN snapshot : snapshot[f] = i }

\* C1 (as claimed): within one session at most one read request is
\* outstanding: no request is written while an earlier one is unresolved.
\* A request counts as resolved as soon as any notification is processed or
\* any read timer fires.
C1_OneOutstanding == ~obs.overlap

\* C2: with a transport that answers every request with exactly one
\* well-formed response, a delivered snapshot comes from a cycle in which the
\* N parsers ran once each in list order, each on the answer to its own
\* section's request, and it holds the tags and exactly the fields those
\* parsers wrote (a parser that raised wrote none).
C2_CycleCompleteness ==
    (Delivered /\ ~obs.dirty) =>
        /\ emitted.via = "notification"
        /\ Len(emitted.log) = N
        /\ \A i \in 1 .. N :
              /\ emitted.log[i].sec = i - 1
              /\ emitted.log[i].req = i - 1
              /\ emitted.log[i].ran
        /\ DOMAIN emitted.snapshot =
              Tags \cup UNION { Fields(i) : i \in { j \in Sections : ~emitted.log[j + 1].poison } }

C2_Witness ==
    /\ Delivered
    /\ ~obs.dirty
    /\ DOMAIN emitted.snapshot = Tags \cup UNION { Fields(i) : i \in Sections }

\* C3 (as claimed): on_data_callback is invoked only by the processing of the
\* response to the request for the last section, N-1.
C3_OnlyAfterLastSection ==
    Delivered =>
        /\ emitted.via = "notification"
        /\ emitted.log # <<>>
        /\ Last(emitted.log).req = N - 1

\* A cycle in which every request was answered once, in order, and nothing
\* but wrong lengths (on sections other than the first) went wrong: they are
\* all the faults of the run.
OnlyWrongLengths(lg) ==
    /\ Len(lg) = N
    /\ count.faults = Cardinality({ i \in 1 .. N : lg[i].len # ExpectedLen(i - 1) })
    /\ \A i \in 1 .. N :
          /\ lg[i].sec = i - 1
          /\ lg[i].req = i - 1
          /\ lg[i].op = READ_SUCCESS
          /\ ~lg[i].poison
          /\ (i = 1 => lg[i].len = ExpectedLen(0))

WrongLength(entry) == entry.op = READ_SUCCESS /\ entry.len # ExpectedLen(entry.sec)

\* C4: a response of the wrong length to a section other than the first
\* neither stops nor reconnects the session and does not hold the index back;
\* and a cycle in which only such responses went wrong delivers a snapshot
\* without any field written by those sections' parsers, with every field of
\* every other section, after the requests for all N sections were written
\* in order.
C4_WrongLengthAbsorbed ==
    /\ [][(NotificationStep /\ section_index >= 1 /\ WrongLength(Processed')) =>
             /\ count'.stops = count.stops
             /\ count'.recoveries = count.recoveries
             /\ count'.connects = count.connects
             /\ section_index' = (section_index + 1) % N]_vars
    /\ [](Delivered /\ emitted.via = "notification" /\ OnlyWrongLengths(emitted.log) =>
             /\ emitted.writes = [i \in 1 .. N |-> i - 1]
             /\ \A i \in Sections :
                   IF WrongLength(emitted.log[i + 1])
                   THEN WrittenBy(emitted.snapshot, i) = {}
                   ELSE Fields(i) \subseteq DOMAIN emitted.snapshot)

C4_Witness ==
    /\ Delivered
    /\ emitted.via = "notification"
    /\ OnlyWrongLengths(emitted.log)
    /\ \E i \in 1 .. (N - 1) : WrongLength(emitted.log[i + 1])
    /\ count.stops = 0

\* C5: a parser runs only on a response whose function byte is READ_SUCCESS
\* and whose length is words*2+5 for the section being read, and every field
\* of the working snapshot and of a delivered one was written by a parser
\* run on such a response.
ValidFor(entry) ==
    /\ entry.ran
    /\ entry.op = READ_SUCCESS
    /\ entry.len = ExpectedLen(entry.sec)
    /\ ~entry.poison

ParsedOnlyValid(lg, snapshot) ==
    /\ \A i \in 1 .. Len(lg) : lg[i].ran => (lg[i].op = READ_SUCCESS /\ lg[i].len = ExpectedLen(lg[i].sec))
    /\ \A f \in (DOMAIN snapshot) \ Tags :
          \E i \in 1 .. Len(lg) : ValidFor(lg[i]) /\ lg[i].sec = snapshot[f] /\ f \in Fields(lg[i].sec)

C5_ParserOnlyOnValid ==
    /\ ParsedOnlyValid(log, data)
    /\ Delivered => ParsedOnlyValid(emitted.log, emitted.snapshot)

C5_Witness ==
    /\ \E i \in 1 .. Len(log) : log[i].op = READ_ERROR
    /\ \E i \in 1 .. Len(log) : log[i].ran
    /\ \E i \in 1 .. Len(log) : ~log[i].ran /\ WrittenBy(data, log[i].sec) = {}

\* C6 (as claimed): a parser never runs on a response whose checksum is wrong.
C6_ChecksumRejected ==
    \A i \in 1 .. Len(log) : log[i].ran => log[i].crc

\* The session has written a request that is unanswered, and has not been
\* asked to stop.
Awaiting == Running /\ inflight # <<>> /\ count.stops = 0

\* C7: a session awaiting a response leaves that state even if no
\* notification ever arrives: the read timer fires and stops it.
C7_TimeoutSafety == Awaiting ~> ~Awaiting

C7_Witness == ~Running /\ count.timeouts = 1 /\ count.notifications = 0 /\ writes = <<0>>

Fresh == count.notifications = 0 /\ count.snapshots = 0 /\ count.timeouts = 0

\* C9 (as claimed): a read timeout or a decode failure on section 0 after a
\* fresh start, with the retry budget not exhausted, takes the recovery path
\* instead of stopping the session or advancing to section 1.
C9_FirstSectionRecovery ==
    [][(/\ Fresh
        /\ section_index = 0
        /\ attempt_count < MAX_BATTERY_ATTEMPTS
        /\ \/ TimeoutStep
           \/ NotificationStep /\ ~Processed'.ran) =>
          /\ count'.recoveries = count.recoveries + 1
          /\ count'.stops = count.stops
          /\ section_index' = 0]_vars

\* C10 (as claimed): when every connect attempt fails, start() returns after
\* exactly 3 connect attempts and one on_error_callback.
C10_ThreeConnectAttempts ==
    (started = "returned" /\ ~obs.linked /\ count.errors >= 1) =>
        (count.connects = MAX_BATTERY_ATTEMPTS /\ count.errors = 1)

\* The step starts a connection recovery (BatteryClient.read_section line 66).
RecoveryStep == count'.recoveries = count.recoveries + 1

\* C11 (as claimed): each connection recovery consumes one attempt of the
\* retry budget, so that a session recovers at most MAX_BATTERY_ATTEMPTS times.
C11_RecoveryConsumesAttempt ==
    [][RecoveryStep => attempt_count' = attempt_count + 1]_vars

\* stop() has been called.
StopRequested == count.stops > 0

\* C12 (as claimed): after stop() has been called no read timer is pending,
\* whether the one in self.read_timeout or one armed earlier.
C12_NoTimerAfterStop ==
    StopRequested => (read_timeout # "pending" /\ orphans = 0)

\* C13 (as claimed): after stop() has been called on_data_callback is not
\* invoked again.
C13_NoSnapshotAfterStop ==
    [][StopRequested => count'.snapshots = count.snapshots]_vars

\* C14 (as claimed): stop() always brings the session to its terminal state:
\* once it has been called, either the disconnect it scheduled is still in
\* progress or the completion future is resolved.
C14_StopCompletes ==
    StopRequested => (futureDone \/ Suspended("disconnecting") # {})

\* The step writes a read request.
WriteStep == Len(writes') > Len(writes)

\* C15 (as claimed): once stop() has been called the session writes no read
\* request and makes no connect attempt.
C15_StoppedIsTerminal ==
    [][StopRequested => (~WriteStep /\ count'.connects = count.connects)]_vars

\* C16 (as claimed): a session that has ended because its device was not
\* found (no connect attempt was made) or because a read timed out has
\* invoked on_error_callback exactly once.
C16_ErrorReportedOnce ==
    (started = "returned" /\ (count.connects = 0 \/ count.timeouts > 0)) => count.errors = 1

\* Coroutines of the bag suspended in the poll sleep of check_polling.
PollSleeps(bag) ==
    BagCardinality([t \in { x \in BagToSet(bag) : x.pc = "poll_sleep" } |-> bag[t]])

\* The step delivers a snapshot / reports an error to the caller.
SnapshotStep == count'.snapshots = count.snapshots + 1

ErrorStep == count'.errors = count.errors + 1

\* C17: an exception raised by a caller's handler changes nothing: when
\* on_data_callback raises, the step that delivered the snapshot still leaves
\* the section index at 0 and the working snapshot empty, and has started the
\* poll sleep if polling is enabled (and nothing otherwise); when
\* on_error_callback raises, the step still calls stop().
C17_HandlerExceptionContained ==
    [][obs'.raised =>
          /\ SnapshotStep =>
                /\ section_index' = 0
                /\ data' = EmptyData
                /\ PollSleeps(tasks') = PollSleeps(tasks) + (IF enable_polling THEN 1 ELSE 0)
                /\ Suspended("pace")' = Suspended("pace")
          /\ ErrorStep => count'.stops > count.stops]_vars

C17_Witness ==
    /\ obs.raised
    /\ ~obs.dirty
    /\ count.snapshots = 1
    /\ section_index = 0
    /\ data = EmptyData
    /\ PollSleeps(tasks) = 1

\* C18 (as claimed): with polling disabled, once the first snapshot has been
\* delivered the session ends: when nothing of it is left to run (no
\* coroutine suspended, no timer pending, no request unanswered) its
\* completion future is resolved.
C18_DisabledPollingEnds ==
    (/\ ~enable_polling
     /\ count.snapshots >= 1
     /\ tasks = EmptyBag
     /\ read_timeout # "pending"
     /\ orphans = 0
     /\ inflight = <<>>) => futureDone

\* The step ends a poll sleep.
PollStep == PollSleeps(tasks') < PollSleeps(tasks)

\* C19: with polling enabled, a well-behaved transport and the connection
\* live, a delivered snapshot is followed by the poll sleep with the section
\* index at 0, and the step that ends the sleep writes the request for
\* section 0 on the same connection: no connect attempt, no recovery, and
\* the client still connected.
C19_PollAgainFromSectionZero ==
    /\ []((Delivered /\ enable_polling /\ ~obs.dirty /\ connected /\ ~futureDone) =>
             /\ PollSleeps(tasks) = 1
             /\ section_index = 0
             /\ writes = <<>>)
    /\ [][(PollStep /\ connected /\ ~obs'.dirty) =>
             /\ writes' = <<0>>
             /\ inflight' = Append(inflight, 0)
             /\ connected'
             /\ count'.connects = count.connects
             /\ count'.recoveries = count.recoveries
             /\ count'.stops = count.stops]_vars

C19_Witness ==
    /\ enable_polling
    /\ ~obs.dirty
    /\ count.snapshots = 1
    /\ writes = <<0>>
    /\ inflight = <<0>>
    /\ count.connects = 1

\* C20: an "Operation is not supported" error raised while connecting or
\* subscribing never invokes on_error_callback; and unless something else
\* fails in the same step it does not stop the session, and with the client
\* connected the request for the current section (section 0 on the first
\* connect) is written.
C20_UnsupportedIsNotFatal ==
    [][obs'.unsupported =>
          /\ count'.errors = count.errors
          /\ count'.faults = count.faults =>
                /\ count'.stops = count.stops
                /\ connected' =>
                      /\ WriteStep
                      /\ Last(writes') = section_index
                      /\ count.connects = 0 => Last(writes') = 0]_vars

C20_Witness ==
    /\ obs.unsupported
    /\ connected
    /\ writes = <<0>>
    /\ count.errors = 0
    /\ count.stops = 0

\* C21: when discovery finds no matching device the session goes to its
\* terminal state without a transport connect attempt and without writing a
\* read request: stop() has run, no connect is in progress, no timer is armed, the
\* link is down with nothing in flight, and in a session that had not been
\* connected before nothing was ever connected or written.
C21_AbsentDeviceStops ==
    obs.absent =>
        /\ StopRequested
        /\ Suspended("ble_connect") = {}
        /\ read_timeout # "pending"
        /\ ~connected
        /\ inflight = <<>>
        /\ count.recoveries = 0 => count.connects = 0 /\ writes = <<>>

C21_Witness == obs.absent /\ count.recoveries = 0 /\ count.stops = 1 /\ count.connects = 0

\* C22: every configured device's session is eventually started by the
\* supervisor whether or not the sessions started earlier are still polling:
\* while a configuration is left and the session started last is polling (it
\* has delivered a snapshot and has not been stopped), the supervisor is able
\* to take the next configuration.
C22_StartsWhilePolling ==
    (sup.next <= Devices /\ Running /\ count.snapshots > 0 /\ ~StopRequested)
        => ENABLED Supervise

\* C23: a session that has stopped is never started again by the supervisor
\* (one start() call for each configuration whose client was started, and
\* nothing left to do once the last configuration is done), and a session
\* that stopped, a client that raised while starting or an unknown device
\* type leaves the loop on its way to the remaining configurations.
C23_FailureIsolated ==
    /\ sup.next = Len(sup.log) + 1
    /\ sup.next <= Devices + 1
    /\ sup.starts = Cardinality({ i \in 1 .. Len(sup.log) : sup.log[i] = "started" })
    /\ (started # "running" /\ sup.next <= Devices) => ENABLED Supervise
    /\ (started # "running" /\ sup.next > Devices) => ~ENABLED NextSupervisor

C23_Witness ==
    /\ Len(sup.log) = 3
    /\ sup.log[1] = "started"
    /\ sup.log[2] \in {"raised", "unknown"}
    /\ sup.log[3] = "started"
    /\ started = "running"
    /\ count.snapshots = 1

\* C24: the map handed to on_data_callback is never mutated by the session
\* afterwards: it still holds what it held when it was handed over, and the
\* session's working map is another map, so that what later notifications
\* decode goes elsewhere.
C24_DeliveredSnapshotUntouched ==
    Delivered => emitted.snapshot = emitted.given /\ ~emitted.shared

C24_Witness ==
    /\ Delivered
    /\ Tags \subseteq DOMAIN emitted.snapshot
    /\ DOMAIN data # {}
    /\ data # emitted.snapshot

\* The sections whose parser merged its fields into the working snapshot,
\* among the notifications of `lg`.
Merged(lg) == { lg[k].sec : k \in { j \in 1 .. Len(lg) : lg[j].ran /\ ~lg[j].poison } }

\* C25 as stated: within one poll cycle no two sections write the same
\* snapshot field.
C25_DisjointFields ==
    \A i, j \in Merged(log) : i # j => Fields(i) \cap Fields(j) = {}

\* C25, amended: within one poll cycle the only snapshot field two sections
\* write is 'function'; every other field of a delivered snapshot was written
\* by the one section whose parser owns it.
C25_DisjointButFunction ==
    /\ \A i, j \in Merged(log) \cup Merged(emitted.log) :
           i # j => Fields(i) \cap Fields(j) \subseteq {"function"}
    /\ Delivered =>
           \A f \in DOMAIN emitted.given \ (Tags \cup {"function"}) :
               { i \in Sections : f \in Fields(i) } = {emitted.given[f]}

C25_Witness ==
    /\ Delivered
    /\ Merged(emitted.log) = Sections
    /\ "function" \in Fields(0) \cap Fields(3)
    /\ emitted.given["function"] = 3
    /\ emitted.given["cell_count"] = 0

C27_NoOrphanTimer == orphans = 0

\* C28: the read request for (deviceId, registerAddress, wordCount) is exactly
\* eight bytes: the device id, the function code 3, the register address high
\* byte then low byte, the word count high byte then low byte, and the
\* CRC16-Modbus of these six bytes, low byte first.  The checksum is the one
\* of the standard test vectors, and the CRC of the whole frame, checksum
\* included, is zero, as for every Modbus frame.
C28_RequestFrame ==
    request.frame # <<>> =>
        LET f == request.frame
        IN  /\ Len(f) = 8
            /\ \A k \in 1 .. 8 : f[k] \in 0 .. 255
            /\ f[1] = request.device_id
            /\ f[2] = 3
            /\ f[3] * 256 + f[4] = request.regAddr
            /\ f[5] * 256 + f[6] = request.readWrd
            /\ crc16_modbus(f) = <<0, 0>>
            /\ SubSeq(f, 1, 6) = <<1, 3, 0, 0, 0, 1>> => SubSeq(f, 7, 8) = <<132, 10>>
            /\ SubSeq(f, 1, 6) = <<255, 3, 1, 0, 0, 7>> => SubSeq(f, 7, 8) = <<16, 42>>

C28_Witness ==
    /\ request.device_id = 255
    /\ request.regAddr = Registers[1]
    /\ request.readWrd = Words[1]
    /\ request.frame = <<255, 3, 19, 136, 0, 17, 20, 182>>

\* Every notification of `lg` answered a request the session had written.
Solicited(lg) == \A k \in 1 .. Len(lg) : lg[k].req # -1

\* C29: in every poll cycle the requests are written for the sections 0, 1,
\* 2, ... in ascending order, each exactly once, whatever the responses are
\* and whatever is raised inside the notification handler: the requests of a
\* cycle are those of the sections from 0 on, with none skipped and none
\* repeated (here with every notification answering a request and without a
\* connection recovery).
C29_EverySectionOnceInOrder ==
    (Solicited(log) /\ Solicited(emitted.log) /\ count.recoveries = 0)
        => \A i \in 1 .. Len(writes) : writes[i] = i - 1

\* C30: after a successful reconnect in the recovery path the request for
\* the current section is written exactly once: no section's request is
\* written twice in a cycle that went through a recovery (with every
\* notification answering a request).
C30_SingleWriteAfterReconnect ==
    (Solicited(log) /\ Solicited(emitted.log) /\ count.recoveries > 0)
        => \A i, j \in 1 .. Len(writes) : writes[i] = writes[j] => i = j

\* C31: one call of characteristic_write_value makes at most MAX_RETRIES (3)
\* write attempts; after a failed attempt it is waiting to try again exactly
\* when the write raised "Operation is not supported" and fewer than
\* MAX_RETRIES attempts were made, and in no other case (another error, the
\* characteristic not found, a successful write); a call waiting to try again
\* can always go on, so the call terminates.
C31_WriteAttemptsBounded ==
    /\ obs.attempt <= MAX_RETRIES
    /\ \A t \in Suspended("write_retry") : t.r \in 1 .. MAX_RETRIES - 1
    /\ obs.wrote \in {"ok", "error"} => Suspended("write_retry") = {}
    /\ obs.wrote = "not_supported" =>
           IF obs.attempt < MAX_RETRIES
           THEN \E t \in Suspended("write_retry") : t.r = obs.attempt
           ELSE Suspended("write_retry") = {}
    /\ (Running /\ Suspended("write_retry") # {}) => ENABLED WriteWake

C31_Witness ==
    /\ obs.wrote = "not_supported"
    /\ obs.attempt = MAX_RETRIES
    /\ Suspended("write_retry") = {}
    /\ writes = <<>>
    /\ read_timeout = "pending"

\* The publishes attempted for field f of device d.
Attempted(M, d, f) == { i \in 1 .. Len(M.published[d]) : M.published[d][i].field = f }

\* C32: over any sequence of send_mqtt_discovery calls at most one discovery
\* publish is attempted for each device and field, a field whose publish was
\* attempted is marked as sent even if the publish failed, and no publish is
\* attempted for a field whose name starts with '__' or that has no entity
\* mapping; in DeviceManager and in run.py alike.
C32_DiscoveryOnce ==
    \A d \in Addresses :
        /\ \A i \in 1 .. Len(device_manager.published[d]) :
              LET f == device_manager.published[d][i].field
              IN  /\ Cardinality(Attempted(device_manager, d, f)) = 1
                  /\ f \in device_manager.mqtt_discovery_sent[d]
                  /\ f \notin Tags
                  /\ f \in device_manager.device_entity_mappings[device_type(d)]
        /\ \A i \in 1 .. Len(integration.published[d]) :
              LET f == integration.published[d][i].field
              IN  /\ Cardinality(Attempted(integration, d, f)) = 1
                  /\ f \in integration.mqtt_discovery_sent[d]
                  /\ f \notin Tags
                  /\ f \in entity_mapping

C32_Witness ==
    /\ <<"aa", "voltage">> \in device_manager.skipped
    /\ \E i \in 1 .. Len(device_manager.published["aa"]) :
          device_manager.published["aa"][i] = [field |-> "voltage", outcome |-> "publish_failed"]
    /\ \E i \in 1 .. Len(device_manager.published["aa"]) :
          device_manager.published["aa"][i].field = "cell_voltage_0"
    /\ <<"bb", "battery_voltage">> \in integration.skipped
    /\ Cardinality(Attempted(integration, "bb", "battery_voltage")) = 1

\* C33: section_index is an index of the section list in every reachable
\* state, 0 <= section_index <= N - 1, whatever responses, handler
\* exceptions, timeouts and recoveries came before.
C33_SectionIndexInRange == section_index \in Sections

\* The except block of on_data_received has wrapped the index: the read of
\* the last section raised, and the cycle was completed from there.
C33_Witness ==
    /\ count.raises > 0
    /\ emitted.via = "exception"
    /\ section_index = 0
    /\ count.notifications = N - 1

\* C34 (as claimed): a read request that was written and is not yet resolved
\* (by a notification or by a timeout) has a read timer pending, in a
\* session not asked to stop: the timer is armed before the write is
\* attempted, so after the first write attempt of a read, failed or not, the
\* timer in self.read_timeout is pending.  While several requests are
\* unresolved, the pending timer may be one an earlier read armed.
C34_TimerPendingForRequest ==
    /\ (obs.wrote # "none" /\ obs.attempt = 1) => read_timeout = "pending"
    /\ (count.outstanding > 0 /\ count.stops = 0) =>
           (read_timeout = "pending" \/ orphans > 0)

\* C35 (as claimed): a parser runs only on the response to the request that
\* was written for its own section: no notification the device sent in
\* answer to the request for one section is decoded by the parser of
\* another section.
C35_ParserMatchesRequest ==
    \A i \in 1 .. Len(log) :
        (log[i].ran /\ log[i].req # -1) => log[i].req = log[i].sec

\* No notification of the cycle was decoded into the snapshot: each was
\* refused by the test of on_data_received, or its parser raised.
NoDecode(lg) == \A i \in 1 .. Len(lg) : ~lg[i].ran \/ lg[i].poison

\* C36: a snapshot is delivered at the end of every cycle, even when every
\* section of the cycle failed to decode: the notifications handled since
\* the last delivery never outlast the wrap of the section index to 0, and
\* the snapshot of a cycle in which nothing was decoded holds the identity
\* tags __device and __client and no other field.
C36_EmptyCycleDelivered ==
    /\ Len(log) > 0 => section_index \in 1 .. N - 1
    /\ (emitted.via # "none" /\ NoDecode(emitted.log)) => DOMAIN emitted.given = Tags

C36_Witness ==
    /\ emitted.via = "notification"
    /\ Len(emitted.log) = N
    /\ NoDecode(emitted.log)
    /\ count.snapshots = 1
    /\ DOMAIN emitted.given = Tags
    /\ section_index = 0

\* What the sections merged according to `lg` have left in `snapshot`: all
\* the fields of a section whose parser returned, nothing of any other.
AllOrNone(lg, snapshot) ==
    \A i \in Sections :
        IF i \in Merged(lg)
        THEN Fields(i) \subseteq DOMAIN snapshot
        ELSE WrittenBy(snapshot, i) = {}

\* C37: a section contributes all of its fields to the working snapshot or
\* none: a parser that raises part-way has changed nothing in it, and the
\* cycle has gone on past its section.
C37_SectionAllOrNone ==
    /\ AllOrNone(log, data)
    /\ emitted.via # "none" => AllOrNone(emitted.log, emitted.given)
    /\ \A k \in 1 .. Len(log) : log[k].poison => log[k].sec < section_index

\* The parser of section 1 raised after section 0 was merged: the snapshot
\* holds the fields of section 0 and no other, and section 2 is next.
C37_Witness ==
    /\ \E k \in 1 .. Len(log) : log[k].poison /\ log[k].ran /\ log[k].sec = 1
    /\ Merged(log) = {0}
    /\ DOMAIN data = Fields(0)
    /\ section_index = 2

\* C38: when the inter-poll sleep ends and the connection is found down, the
\* session stops: stop() is called once, and the step makes no connect or
\* recovery attempt, leaves no coroutine of its own suspended (no discovery,
\* no write), writes no request and arms no read timer.
C38_PollWithLinkDownStops ==
    [][(PollStep /\ ~connected) =>
          /\ count'.stops = count.stops + 1
          /\ count'.connects = count.connects
          /\ count'.recoveries = count.recoveries
          /\ ~connected'
          /\ \E t \in Suspended("poll_sleep") : tasks' = tasks (-) SetToBag({t})
          /\ writes' = writes
          /\ inflight' = inflight
          /\ read_timeout' # "pending"
          /\ orphans' = orphans
          /\ futureDone']_vars

\* A first cycle was delivered, the link dropped during the poll sleep, and
\* the read that the end of the sleep started has stopped the session.
C38_Witness ==
    /\ count.snapshots = 1
    /\ section_index = 0
    /\ log = <<>>
    /\ writes = <<>>
    /\ ~connected
    /\ count.stops = 1
    /\ count.timeouts = 0
    /\ count.errors = 0
    /\ count.connects = 1
    /\ tasks = EmptyBag
    /\ read_timeout # "pending"
    /\ futureDone

\* What two sessions have in common when they differ at most in the number
\* of stop() calls made and in the disconnect() tasks scheduled.
SameButStops(A, B) ==
    [A EXCEPT !.count.stops = 0, !.tasks = EmptyBag]
        = [B EXCEPT !.count.stops = 0, !.tasks = EmptyBag]

\* stop() called on session S once more: it raises nothing, calls neither
\* on_error_callback nor on_data_callback, and does not resolve a future
\* that is done.
StopsQuietly(S) ==
    LET T == stop(S)
    IN  /\ ~T.exc
        /\ ~T.obs.raised
        /\ T.count.errors = S.count.errors
        /\ T.count.snapshots = S.count.snapshots
        /\ T.count.resolved <= 1
        /\ S.futureDone => T.count.resolved = S.count.resolved
        /\ T.tasks \in {S.tasks, S.tasks (+) SetToBag({Task("disconnecting", <<>>, -1, 0)})}

\* C39: stop() is idempotent.  The future of a session is resolved at most
\* once; in a session that was started (self.loop is set), a stop() called on a session that is stopping or stopped raises
\* nothing, invokes no callback and resolves nothing that is resolved; a
\* stopped session is left as it is by it, but for the timer of a read made
\* after the first stop, which is cancelled; and of two stop() calls in a row
\* the second changes nothing but the number of disconnect() tasks.
C39_StopIdempotent ==
    /\ count.resolved <= 1
    /\ count.resolved = (IF futureDone THEN 1 ELSE 0)
    /\ started # "idle" =>
           /\ StopsQuietly(stop(Session))
           /\ SameButStops(stop(stop(Session)), stop(Session))
           /\ count.stops >= 1 => StopsQuietly(Session)
           /\ (count.stops >= 1 /\ futureDone) =>
                  SameButStops(stop(Session), cancel_read_timeout(Session))

\* stop() was called on a session that was stopping, and the session has
\* ended: two calls, one resolution.
C39_Witness ==
    /\ count.stops = 2
    /\ futureDone
    /\ count.resolved = 1
    /\ ~connected

\* C40: the supervisor runs the sessions one after another.  While a session
\* is running (connecting, polling or sleeping) the loop over the
\* configurations takes no configuration, so no other session is started;
\* and when it takes one after a session was started, that session has
\* reached its terminal state: its future is resolved, its link is down and
\* its start() has returned.
C40_OneSessionAtATime ==
    /\ started = "running" => ~ENABLED Supervise
    /\ (sup.starts >= 1 /\ ENABLED Supervise) =>
           /\ started = "returned"
           /\ futureDone
           /\ count.resolved = 1
           /\ ~connected
    /\ sup.starts <= Len(sup.log)

\* The second session is polling after the first one has ended.
C40_Witness ==
    /\ sup.starts = 2
    /\ sup.log = <<"started", "started">>
    /\ started = "running"
    /\ connected
    /\ count.snapshots = 1
    /\ PollSleeps(tasks) = 1

=============================================================================
